---- MODULE Spec2Model ----
(***************************************************************************)
(* A model of py-sdm's feature extraction script, extract_features.py:     *)
(* main() = confirm_outfile; extract_features (directory resolution,       *)
(* sampling, pool set-up, imread selection, the map over the sampled       *)
(* paths); save_features; and a later read_features of the saved file.     *)
(*                                                                         *)
(* Python strings whose characters matter (directory names, labels, file   *)
(* names, extensions, HDF5 path components) are sequences of one-character  *)
(* strings, so that rsplit('.'), lower(), sorted() and HDF5's '/' paths are *)
(* computed rather than assumed.                                           *)
(***************************************************************************)
EXTENDS Integers, Sequences, FiniteSets, TLC

VARIABLES
    args,          \* the arguments of extract_features (vars(args) in main)
    env,           \* the world: directory contents, importable libraries, unreadable images
    pc,            \* position of main()
    dirs,          \* the dirname -> label dict after lines 134-135
    todo,          \* directories of dirs not yet iterated (line 140)
    ims_by_label,  \* label -> list of <<dirname, fname>> (line 138)
    seen_names,    \* label -> set of fnames (line 139)
    labelsTodo,    \* labels of ims_by_label not yet iterated (line 153)
    sampled,       \* the list of <<label, fname, path>> built at lines 151-155
    pool,          \* the worker pool used by do_map (lines 158-166)
    imread_mode,   \* the imread mode frozen at line 169
    probed,        \* the modes whose import _find_working_imread tried at line 169, in order
    tasks,         \* per index of paths: "pending", "running", "done", "failed"
    results,       \* what do_map hands back, a list of <<frames, descrs>>
    arrivals,      \* the task indices in the order the pool got their results
    features,      \* the Features namedtuple returned at line 174
    err,           \* the exception that ended the run, if any
    file,          \* the HDF5 output file: path -> node
    saveIdx,       \* number of records save_features' loop has written
    readRes        \* what read_features returned or raised

vars == <<args, env, pc, dirs, todo, ims_by_label, seen_names, labelsTodo, sampled, pool,
          imread_mode, probed, tasks, results, arrivals, features, err, file, saveIdx,
          readRes>>

----------------------------------------------------------------------------
(* Bounds of the model. *)

\* Largest number of image files in the directory of the sampling inputs.
MaxFiles == 4
\* Largest number of entries of a directory of the resolution inputs.
MaxEntries == 2
\* Largest length of an imread_mode preference list.
MaxModes == 2
\* Largest explicit process count given as `parallel`.
MaxProc == 2

----------------------------------------------------------------------------
(* Strings. *)

\* The characters used, in ASCII order ('.' < '/' < upper case < lower case).
Ascii == <<".", "/", "G", "J", "P", "a", "b", "c", "d", "e", "f", "g", "h",
           "j", "m", "n", "p", "q", "r", "s", "t", "x">>

Ord(c) == CHOOSE i \in DOMAIN Ascii : Ascii[i] = c

\* str.lower() on one character.
LowerChar(c) == CASE c = "G" -> "g" [] c = "J" -> "j" [] c = "P" -> "p" [] OTHER -> c

\* str.lower()
Lower(s) == [i \in DOMAIN s |-> LowerChar(s[i])]

\* Python's < on str: lexicographic by code point, a proper prefix is smaller.
RECURSIVE StrLess(_, _)
StrLess(s, t) ==
    IF t = <<>> THEN FALSE
    ELSE IF s = <<>> THEN TRUE
    ELSE IF s[1] # t[1] THEN Ord(s[1]) < Ord(t[1])
    ELSE StrLess(Tail(s), Tail(t))

\* Python's < on the (dirname, fname) tuples of ims_by_label: first items, then second.
PairLess(p, q) == StrLess(p[1], q[1]) \/ (p[1] = q[1] /\ StrLess(p[2], q[2]))

Range(s) == {s[i] : i \in DOMAIN s}

\* Index of the last occurrence of c in s, 0 if there is none.
LastIndexOf(s, c) ==
    IF \E i \in DOMAIN s : s[i] = c
    THEN CHOOSE i \in DOMAIN s : s[i] = c /\ \A j \in DOMAIN s : s[j] = c => j <= i
    ELSE 0

\* fname.rsplit('.', 1): one part when fname holds no '.', else the text before
\* and the text after the last '.'.
RSplitDot(fname) ==
    LET k == LastIndexOf(fname, ".") IN
    IF k = 0 THEN <<fname>>
    ELSE <<SubSeq(fname, 1, k - 1), SubSeq(fname, k + 1, Len(fname))>>

\* os.path.join(dirname, fname)
PathJoin(dirname, fname) ==
    IF dirname # <<>> /\ dirname[Len(dirname)] = "/" THEN dirname \o fname
    ELSE dirname \o <<"/">> \o fname

----------------------------------------------------------------------------
(* Exceptions. *)

NoError == [kind |-> "none", at |-> "none", names |-> <<>>, modes |-> <<>>]

Raise(kind, at, names, modes) == [kind |-> kind, at |-> at, names |-> names, modes |-> modes]

----------------------------------------------------------------------------
(* Dicts. *)

\* The empty dict.
EmptyDict == [k \in {} |-> {}]

\* d[k] = v
Put(d, k, v) == [x \in (DOMAIN d) \cup {k} |-> IF x = k THEN v ELSE d[x]]

\* d[k] of a defaultdict, without the insertion
GetOr(d, k, default) == IF k \in DOMAIN d THEN d[k] ELSE default

----------------------------------------------------------------------------
(* extract_features, lines 134-147: directories to images by label. *)

DEFAULT_EXTENSIONS == {<<"j", "p", "g">>, <<"p", "n", "g">>, <<"b", "m", "p">>}

\* Lines 134-135: an iterable of directory names labels each directory with its own name.
NormalizeDirs(d) ==
    IF d.items THEN d.map ELSE [dirname \in d.names |-> dirname]

\* Line 142: fname.rsplit('.', 1)[1] raises IndexError when fname holds no '.'.
HasExtension(fname) == Len(RSplitDot(fname)) >= 2

\* Lines 141-147 for the entries listing[i..] of directory dirname, in order.
\* st = [ims, seen, err]; the first exception ends the loop.
RECURSIVE ResolveEntries(_, _, _, _, _, _)
ResolveEntries(listing, i, dirname, label, extensions, st) ==
    IF i > Len(listing) THEN st
    ELSE
    LET fname == listing[i] IN
    IF ~HasExtension(fname)
    THEN [st EXCEPT !.err = Raise("IndexError", "resolve", <<fname>>, <<>>)]
    ELSE IF Lower(RSplitDot(fname)[2]) \notin extensions
    THEN ResolveEntries(listing, i + 1, dirname, label, extensions, st)
    ELSE IF fname \in GetOr(st.seen, label, {})
    THEN [st EXCEPT !.err = Raise("ValueError", "resolve", <<fname, label>>, <<>>),
                    !.seen = Put(st.seen, label, GetOr(st.seen, label, {}))]
    ELSE ResolveEntries(listing, i + 1, dirname, label, extensions,
            [st EXCEPT !.seen = Put(st.seen, label, GetOr(st.seen, label, {}) \cup {fname}),
                       !.ims = Put(st.ims, label,
                                   Append(GetOr(st.ims, label, <<>>), <<dirname, fname>>))])

----------------------------------------------------------------------------
(* Sampling, lines 96-107 and 150-155. *)

\* sorted() of a list of distinct (dirname, fname) tuples.
RECURSIVE SortPairs(_)
SortPairs(S) ==
    IF S = {} THEN <<>>
    ELSE LET m == CHOOSE x \in S : \A y \in S \ {x} : PairLess(x, y)
         IN <<m>> \o SortPairs(S \ {m})

Sorted(lst) == SortPairs(Range(lst))

\* lst[:n], for any integer n
SliceTo(lst, n) ==
    IF n >= 0 THEN SubSeq(lst, 1, IF n < Len(lst) THEN n ELSE Len(lst))
    ELSE SubSeq(lst, 1, IF Len(lst) + n > 0 THEN Len(lst) + n ELSE 0)

\* round(a / b) for a >= 0, b > 0, halves to the even neighbour (numpy.round)
RoundDiv(a, b) ==
    LET q == a \div b
        r == a % b
    IN IF 2 * r < b THEN q
       ELSE IF 2 * r > b THEN q + 1
       ELSE IF q % 2 = 0 THEN q ELSE q + 1

\* np.round(np.linspace(0, last, n)) for n >= 1
LinspaceRound(last, n) ==
    IF n = 1 THEN <<0>>
    ELSE [k \in 1..n |-> RoundDiv((k - 1) * last, n - 1)]

\* np.diff(indices) >= 1, elementwise
DiffAtLeastOne(indices) == [k \in 1..(Len(indices) - 1) |-> indices[k + 1] - indices[k] >= 1]

\* The truth value Python's assert takes of a numpy bool array: an empty array
\* is false, a one-element array is its element, a longer one raises ValueError.
AssertArray(b) ==
    IF Len(b) = 0 THEN "AssertionError"
    ELSE IF Len(b) = 1 THEN (IF b[1] THEN "ok" ELSE "AssertionError")
    ELSE "ValueError"

Outcome(kind, items) == [kind |-> kind, items |-> items]

\* _sample_uniform with line 97 as len(lst) < n: a list of exactly n items goes
\* through linspace and the assert.
SampleUniformStrict(lst, n) ==
    IF Len(lst) < n THEN Outcome("ok", lst)
    ELSE LET indices == LinspaceRound(Len(lst) - 1, n)
             check == AssertArray(DiffAtLeastOne(indices))
         IN IF check # "ok" THEN Outcome(check, <<>>)
            ELSE Outcome("ok", [k \in 1..n |-> lst[indices[k] + 1]])

\* _sample_uniform, lines 96-101
SampleUniform(lst, n) ==
    IF Len(lst) <= n THEN Outcome("ok", lst)
    ELSE LET indices == LinspaceRound(Len(lst) - 1, n)
             check == AssertArray(DiffAtLeastOne(indices))
         IN IF check # "ok" THEN Outcome(check, <<>>)
            ELSE Outcome("ok", [k \in 1..n |-> lst[indices[k] + 1]])

\* SAMPLERS['first'], line 104
SampleFirst(lst, n) == Outcome("ok", SliceTo(lst, n))

\* random.sample(lst, k): any k distinct positions of lst, in any order
RandomSamples(lst, k) ==
    {[j \in 1..k |-> lst[pos[j]]] :
        pos \in {p \in [1..k -> DOMAIN lst] : \A i, j \in 1..k : p[i] = p[j] => i = j}}

\* SAMPLERS['random'], line 105: the outcomes it can have
SampleRandom(lst, n) ==
    {Outcome("ok", s) : s \in RandomSamples(lst, IF n < Len(lst) THEN n ELSE Len(lst))}

\* img_per_cla: None, or an integer
NoCap == [none |-> TRUE, n |-> 0]
Cap(n) == [none |-> FALSE, n |-> n]

\* Line 150 applied at line 154: the outcomes of sample(sorted(images), img_per_cla)
SampleOutcomes(sampler, img_per_cla, lst) ==
    IF img_per_cla.none THEN {Outcome("ok", lst)}
    ELSE CASE sampler = "first" -> {SampleFirst(lst, img_per_cla.n)}
           [] sampler = "random" -> SampleRandom(lst, img_per_cla.n)
           [] sampler = "uniform" -> {SampleUniform(lst, img_per_cla.n)}

\* Lines 152-154 for one label: the (label, fname, path) triples of the sample
Triples(label, items) ==
    [k \in DOMAIN items |-> <<label, items[k][2], PathJoin(items[k][1], items[k][2])>>]

----------------------------------------------------------------------------
(* _find_working_imread, lines 48-76. *)

SKIMAGE_ == <<"s", "k", "i", "m", "a", "g", "e", "-">>
CV2 == <<"c", "v", "2">>
MATPLOTLIB == <<"m", "a", "t", "p", "l", "o", "t", "l", "i", "b">>
PIL == <<"p", "i", "l">>
QT == <<"q", "t">>
GDAL == <<"g", "d", "a", "l">>
FREEIMAGE == <<"f", "r", "e", "e", "i", "m", "a", "g", "e">>

IMREAD_MODES == <<SKIMAGE_ \o PIL, SKIMAGE_ \o QT, SKIMAGE_ \o GDAL, CV2,
                  MATPLOTLIB, SKIMAGE_ \o FREEIMAGE>>

\* str.startswith
StartsWith(s, prefix) == Len(s) >= Len(prefix) /\ SubSeq(s, 1, Len(prefix)) = prefix

\* Lines 51-52: a single mode given as a string becomes a one-element list.
ModeList(modes) == IF modes.str THEN <<modes.value>> ELSE modes.value

\* TryMode with use_plugin's failure not counted: a skimage mode whose plugin is
\* missing is returned as working.
TryModePluginUnchecked(mode, libs, imread) ==
    IF StartsWith(mode, SKIMAGE_)
    THEN IF "skimage" \notin libs.modules
         THEN [did |-> "ImportError", imread |-> imread]
         ELSE [did |-> "return", imread |-> "skimage.io.imread"]
    ELSE IF mode = CV2
    THEN IF "cv2" \notin libs.modules
         THEN [did |-> "ImportError", imread |-> imread]
         ELSE [did |-> "return", imread |-> "cv2"]
    ELSE IF mode = MATPLOTLIB
    THEN IF "matplotlib" \notin libs.modules
         THEN [did |-> "ImportError", imread |-> imread]
         ELSE [did |-> "return", imread |-> "matplotlib"]
    ELSE [did |-> "UnboundLocalError", imread |-> imread]

\* Lines 55-71, the try block for one mode. imread is the local name `imread`
\* ("unbound" until something binds it). Returns what the block did: "return",
\* "ImportError" (caught at line 73) or "UnboundLocalError" (not caught).
TryMode(mode, libs, imread) ==
    IF StartsWith(mode, SKIMAGE_)
    THEN IF "skimage" \notin libs.modules
         THEN [did |-> "ImportError", imread |-> imread]
         ELSE IF SubSeq(mode, Len(SKIMAGE_) + 1, Len(mode)) \notin libs.plugins
         THEN [did |-> "ImportError", imread |-> "skimage.io.imread"]
         ELSE [did |-> "return", imread |-> "skimage.io.imread"]
    ELSE IF mode = CV2
    THEN IF "cv2" \notin libs.modules
         THEN [did |-> "ImportError", imread |-> imread]
         ELSE [did |-> "return", imread |-> "cv2"]
    ELSE IF mode = MATPLOTLIB
    THEN IF "matplotlib" \notin libs.modules
         THEN [did |-> "ImportError", imread |-> imread]
         ELSE [did |-> "return", imread |-> "matplotlib"]
    ELSE IF imread = "unbound"
    THEN [did |-> "UnboundLocalError", imread |-> imread]
    ELSE [did |-> "return", imread |-> imread]

\* Lines 54-76: the loop from position i on. tried is the list of the modes whose
\* try block was entered.
RECURSIVE ImreadLoop(_, _, _, _, _)
ImreadLoop(modes, i, libs, imread, tried) ==
    IF i > Len(modes)
    THEN [kind |-> "ImportError", mode |-> <<>>, imread |-> imread,
          tried |-> tried, listed |-> modes]
    ELSE LET t == TryMode(modes[i], libs, imread) IN
         IF t.did = "return"
         THEN [kind |-> "ok", mode |-> modes[i], imread |-> t.imread,
               tried |-> Append(tried, modes[i]), listed |-> <<>>]
         ELSE IF t.did = "ImportError"
         THEN ImreadLoop(modes, i + 1, libs, t.imread, Append(tried, modes[i]))
         ELSE [kind |-> t.did, mode |-> <<>>, imread |-> t.imread,
               tried |-> Append(tried, modes[i]), listed |-> <<>>]

FindWorkingImread(modes, libs) == ImreadLoop(ModeList(modes), 1, libs, "unbound", <<>>)

----------------------------------------------------------------------------
(* _load_features and get_features, lines 26-45 and 79-93. *)

\* What vl_phow and the post-processing of lines 42-43 compute for the image at path.
Frames(path) == <<"frames", path>>
Descrs(path) == <<"descrs", path>>

\* _load_features(path, imread_mode=mode): line 80 looks the mode up again, line 81
\* reads the image, which fails for a file the reader cannot decode.
LoadFeatures(path, mode, world) ==
    LET found == FindWorkingImread([str |-> TRUE, value |-> mode], world.libs) IN
    IF found.kind # "ok" THEN [kind |-> found.kind, value |-> <<>>]
    ELSE IF path \in world.bad THEN [kind |-> "IOError", value |-> <<>>]
    ELSE [kind |-> "ok", value |-> <<Frames(path), Descrs(path)>>]

----------------------------------------------------------------------------
(* The pool and do_map, lines 157-173. *)

\* Number of CPU cores of the machine, mp.Pool(None)'s size.
Cores == 2
\* Size of a pool the caller supplies.
ExternalWorkers == 2

NoPool == [owner |-> "none", workers |-> 0]

\* Lines 158-166
MakePool(parallel) ==
    IF parallel.kind = "pool" THEN [owner |-> "external", workers |-> ExternalWorkers]
    ELSE IF parallel.kind = "False" THEN NoPool
    ELSE [owner |-> "internal",
          workers |-> IF parallel.kind = "True" \/ parallel.kind = "None" THEN Cores
                      ELSE parallel.n]

\* What becomes of the pool when extract_features is left: the function never
\* closes, terminates or joins it, so an internal pool's workers go only if the
\* garbage collector finalizes the pool (collected), which Python does not promise.
LeavePool(p, collected) ==
    IF p.owner = "internal" /\ collected THEN [p EXCEPT !.workers = 0] ELSE p

Pending == [kind |-> "pending", value |-> <<>>]

\* Collect as an unordered map would do it: each result goes to the first free
\* place of the list, in the order of arrival.
CollectInArrivalOrder(res, i, r) ==
    LET k == CHOOSE j \in DOMAIN res :
                 res[j].kind = "pending" /\ \A m \in 1..(j - 1) : res[m].kind # "pending"
    IN [res EXCEPT ![k] = r]

\* map's result list: the result of task i is element i, whenever it arrives.
Collect(res, i, r) == [res EXCEPT ![i] = r]

\* zip(*results) of line 173 put with the labels and names into Features, line 174
MakeFeatures(triples, res) ==
    [labels |-> [i \in DOMAIN triples |-> triples[i][1]],
     names |-> [i \in DOMAIN triples |-> triples[i][2]],
     frames |-> [i \in DOMAIN res |-> res[i].value[1]],
     features |-> [i \in DOMAIN res |-> res[i].value[2]]]

NoFeatures == [labels |-> <<>>, names |-> <<>>, frames |-> <<>>, features |-> <<>>]

----------------------------------------------------------------------------
(* The HDF5 file, as h5py shows it: a tree of groups and datasets. The file  *)
(* is a function from paths (sequences of link names, <<>> the root group)   *)
(* to nodes; the empty function is a file that does not exist.               *)

Group == [kind |-> "group", value |-> <<>>, attrs |-> EmptyDict]
Dataset(v) == [kind |-> "dataset", value |-> v, attrs |-> EmptyDict]

FRAMES == <<"f", "r", "a", "m", "e", "s">>
FEATURES == <<"f", "e", "a", "t", "u", "r", "e", "s">>

\* The link names of an HDF5 path: the text between '/' characters, empty names dropped.
RECURSIVE Components(_)
Components(s) ==
    IF s = <<>> THEN <<>>
    ELSE LET k == IF \E i \in DOMAIN s : s[i] = "/"
                  THEN CHOOSE i \in DOMAIN s : s[i] = "/" /\ \A j \in 1..(i - 1) : s[j] # "/"
                  ELSE Len(s) + 1
             head == SubSeq(s, 1, k - 1)
             rest == Components(SubSeq(s, k + 1, Len(s)))
         IN IF head = <<>> THEN rest ELSE <<head>> \o rest

\* Groups made along path below the group at base, where nothing exists yet.
WithGroups(f, base, comps) ==
    [q \in (DOMAIN f) \cup {base \o SubSeq(comps, 1, k) : k \in 1..Len(comps)} |->
        IF q \in DOMAIN f THEN f[q] ELSE Group]

\* Group.require_group(name) on the root group: the group at that path, made
\* (with the groups on the way) when absent; TypeError when a dataset is in the way.
RequireGroup(f, name) ==
    LET comps == Components(name) IN
    IF \E k \in 1..Len(comps) :
          SubSeq(comps, 1, k) \in DOMAIN f /\ f[SubSeq(comps, 1, k)].kind = "dataset"
    THEN [kind |-> "TypeError", file |-> f, at |-> <<>>]
    ELSE [kind |-> "ok", file |-> WithGroups(f, <<>>, comps), at |-> comps]

\* Group.create_group(name) on the group at base: ValueError when the name exists.
CreateGroup(f, base, name) ==
    LET comps == Components(name) IN
    IF (base \o comps) \in DOMAIN f
    THEN [kind |-> "ValueError", file |-> f, at |-> <<>>]
    ELSE [kind |-> "ok", file |-> WithGroups(f, base, comps), at |-> base \o comps]

\* g[key] = array on the group at base
SetDataset(f, base, key, v) ==
    [q \in (DOMAIN f) \cup {Append(base, key)} |->
        IF q = Append(base, key) THEN Dataset(v) ELSE f[q]]

\* Lines 309-311: one turn of save_features' loop.
SaveOne(f, label, name, frames, descrs) ==
    LET lg == RequireGroup(f, label) IN
    IF lg.kind # "ok" THEN [kind |-> lg.kind, file |-> lg.file]
    ELSE LET g == CreateGroup(lg.file, lg.at, name) IN
         IF g.kind # "ok" THEN [kind |-> g.kind, file |-> g.file]
         ELSE [kind |-> "ok",
               file |-> SetDataset(SetDataset(g.file, g.at, FRAMES, frames),
                                   g.at, FEATURES, descrs)]

\* The names of the links of the group at base
Children(f, base) ==
    {q[Len(q)] : q \in {r \in DOMAIN f : Len(r) = Len(base) + 1 /\ SubSeq(r, 1, Len(base)) = base}}

\* h5py iterates a group's links in name order.
RECURSIVE SortStrs(_)
SortStrs(S) ==
    IF S = {} THEN <<>>
    ELSE LET m == CHOOSE x \in S : \A y \in S \ {x} : StrLess(x, y)
         IN <<m>> \o SortStrs(S \ {m})

\* g[key][...] for the node g at path: the array, or the exception raised
ReadArray(f, path, key) ==
    IF f[path].kind = "dataset" THEN [kind |-> "ValueError", value |-> <<>>]
    ELSE IF Append(path, key) \notin DOMAIN f THEN [kind |-> "KeyError", value |-> <<>>]
    ELSE IF f[Append(path, key)].kind # "dataset" THEN [kind |-> "TypeError", value |-> <<>>]
    ELSE [kind |-> "ok", value |-> f[Append(path, key)].value]

AppendRecord(ret, label, fname, frames, feats) ==
    [labels |-> Append(ret.labels, label), names |-> Append(ret.names, fname),
     frames |-> Append(ret.frames, frames), features |-> Append(ret.features, feats)]

\* Lines 327-335 for the links fnames[i..] of the group label
RECURSIVE ReadNames(_, _, _, _, _)
ReadNames(f, label, fnames, i, acc) ==
    IF i > Len(fnames) \/ acc.kind # "ok" THEN acc
    ELSE LET fr == ReadArray(f, <<label, fnames[i]>>, FRAMES)
             fe == ReadArray(f, <<label, fnames[i]>>, FEATURES)
         IN IF fr.kind # "ok" THEN [acc EXCEPT !.kind = fr.kind]
            ELSE IF fe.kind # "ok" THEN [acc EXCEPT !.kind = fe.kind]
            ELSE ReadNames(f, label, fnames, i + 1,
                    [acc EXCEPT !.ret = AppendRecord(acc.ret, label, fnames[i], fr.value, fe.value)])

\* Lines 326-335 for the links labels[i..] of the root group
RECURSIVE ReadLabels(_, _, _, _)
ReadLabels(f, labels, i, acc) ==
    IF i > Len(labels) \/ acc.kind # "ok" THEN acc
    ELSE IF f[<<labels[i]>>].kind = "dataset" THEN [acc EXCEPT !.kind = "AttributeError"]
    ELSE ReadLabels(f, labels, i + 1,
            ReadNames(f, labels[i], SortStrs(Children(f, <<labels[i]>>)), 1, acc))

\* read_features(filename), lines 317-337, with load_attrs and features_dtype left at
\* their defaults
ReadFeatures(f) ==
    IF <<>> \notin DOMAIN f THEN [kind |-> "IOError", ret |-> NoFeatures]
    ELSE ReadLabels(f, SortStrs(Children(f, <<>>)), 1, [kind |-> "ok", ret |-> NoFeatures])

----------------------------------------------------------------------------
(* The inputs: arguments and worlds the runs start from. *)

DirP == <<"p">>
DirQ == <<"q">>
DirRS == <<"r", "/", "s">>

LabelA == <<"a">>
LabelB == <<"b">>

Letters == <<"a", "b", "c", "d", "e", "f", "g", "h">>
DotJpg == <<".", "j", "p", "g">>
Img(i) == <<Letters[i]>> \o DotJpg
A_PNG == <<"a", ".", "p", "n", "g">>
UPPER_IMG == <<"b", ".", "J", "P", "G">>
TEXT_FILE == <<"n", ".", "t", "x", "t">>
SUBDIR == <<"t", "m", "p">>

SeqsUpTo(S, n) == UNION {[1..k -> S] : k \in 0..n}
Distinct(s) == \A i, j \in DOMAIN s : s[i] = s[j] => i = j

Mapping(f) == [items |-> TRUE, map |-> f, names |-> {}]
Iterable(S) == [items |-> FALSE, map |-> EmptyDict, names |-> S]

ModeSeq(l) == [str |-> FALSE, value |-> l]
ModeStr(m) == [str |-> TRUE, value |-> m]

Sequential == [kind |-> "False", n |-> 0]
Parallels ==
    {Sequential, [kind |-> "True", n |-> 0], [kind |-> "None", n |-> 0], [kind |-> "pool", n |-> 0]}
    \cup {[kind |-> "int", n |-> k] : k \in 1..MaxProc}

OnlyCv2 == [modules |-> {"cv2"}, plugins |-> {}]
NoLibs == [modules |-> {}, plugins |-> {}]

Args(d, cap, sampler, modes, parallel) ==
    [dirs |-> d, img_per_cla |-> cap, sampler |-> sampler,
     extensions |-> DEFAULT_EXTENSIONS, imread_mode |-> modes, parallel |-> parallel]

World(listing, libs, bad) == [listing |-> listing, libs |-> libs, bad |-> bad]

Input(a, w) == [args |-> a, world |-> w]

TwoDirs(lp, lq) == [d \in {DirP, DirQ} |-> IF d = DirP THEN lp ELSE lq]
OneDir(l) == [d \in {DirP} |-> l]

\* Two directories under one label or under two, each holding a few entries:
\* images, an image with an upper-case extension, a text file, a subdirectory.
ResolverInputs ==
    LET listings == {l \in SeqsUpTo({Img(1), UPPER_IMG, TEXT_FILE, SUBDIR}, MaxEntries) :
                        Distinct(l)}
    IN {Input(Args(Mapping(TwoDirs(LabelA, lq)), NoCap, "first", ModeSeq(IMREAD_MODES), Sequential),
              World(TwoDirs(lp1, lq1), OnlyCv2, {})) :
            lq \in {LabelA, LabelB}, lp1 \in listings, lq1 \in listings}

\* One label of 1..MaxFiles images (listed in reverse order), alone or with a
\* second directory of the same label, under every sampler and cap.
SamplerInputs ==
    LET down(k) == [i \in 1..k |-> Img(k + 1 - i)]
    IN {Input(Args(Mapping(OneDir(LabelA)), Cap(n), sm, ModeSeq(IMREAD_MODES), Sequential),
              World(OneDir(down(k)), OnlyCv2, {})) :
            k \in 1..MaxFiles, n \in 1..(MaxFiles + 1), sm \in {"first", "random", "uniform"}}
       \cup
       {Input(Args(Mapping(TwoDirs(LabelA, LabelA)), Cap(n), sm, ModeSeq(IMREAD_MODES), Sequential),
              World(TwoDirs(down(k), <<A_PNG>>), OnlyCv2, {})) :
            k \in 1..MaxFiles, n \in 1..(MaxFiles + 1), sm \in {"first", "random", "uniform"}}

\* Every preference list of up to MaxModes of the imread modes, and every mode as
\* a string, against every set of importable modules and two of the plugins.
BackendInputs ==
    {Input(Args(Mapping(OneDir(LabelA)), NoCap, "first", ms, Sequential),
           World(OneDir(<<Img(1)>>), [modules |-> mods, plugins |-> plugs], {})) :
        ms \in {ModeSeq(l) : l \in SeqsUpTo(Range(IMREAD_MODES), MaxModes)}
               \cup {ModeStr(m) : m \in Range(IMREAD_MODES)},
        mods \in SUBSET {"skimage", "cv2", "matplotlib"},
        plugs \in SUBSET {PIL, FREEIMAGE}}

\* Three images under two labels, every form of `parallel`, every set of images
\* the reader cannot decode, with and without a usable reader.
DispatchInputs ==
    LET listing == TwoDirs(<<Img(2), Img(1)>>, <<Img(1)>>)
        paths == {PathJoin(DirP, Img(1)), PathJoin(DirP, Img(2)), PathJoin(DirQ, Img(1))}
    IN {Input(Args(Mapping(TwoDirs(LabelA, LabelB)), NoCap, "first", ModeSeq(IMREAD_MODES), par),
              World(listing, libs, bad)) :
            par \in Parallels, libs \in {OnlyCv2, NoLibs}, bad \in SUBSET paths}

\* Labels as the caller may give them, and directories named as their own labels.
ArchiveInputs ==
    LET labels == {LabelA, LabelB, <<"a", "/">>, <<"a", "/", "b">>, <<"/", "a">>}
    IN {Input(Args(Mapping(TwoDirs(lp, lq)), NoCap, "first", ModeSeq(IMREAD_MODES), Sequential),
              World(TwoDirs(<<Img(1)>>, <<fq>>), OnlyCv2, {})) :
            lp \in labels, lq \in labels, fq \in {Img(1), Img(2)}}
       \cup
       {Input(Args(Iterable(ds), NoCap, "first", ModeSeq(IMREAD_MODES), Sequential),
              World([d \in ds |-> <<Img(1)>>], OnlyCv2, {})) :
            ds \in (SUBSET {DirP, DirQ, DirRS}) \ {{}}}

Inputs == ResolverInputs \cup SamplerInputs \cup BackendInputs \cup DispatchInputs
          \cup ArchiveInputs

----------------------------------------------------------------------------
(* The state machine. *)

NoRead == [kind |-> "none", ret |-> NoFeatures]

Init ==
    \E in \in Inputs :
        /\ args = in.args
        /\ env = in.world
        /\ pc = "main"
        /\ dirs = EmptyDict
        /\ todo = {}
        /\ ims_by_label = EmptyDict
        /\ seen_names = EmptyDict
        /\ labelsTodo = {}
        /\ sampled = <<>>
        /\ pool = NoPool
        /\ imread_mode = <<>>
        /\ probed = <<>>
        /\ tasks = <<>>
        /\ results = <<>>
        /\ arrivals = <<>>
        /\ features = NoFeatures
        /\ err = NoError
        /\ file = EmptyDict
        /\ saveIdx = 0
        /\ readRes = NoRead

\* main, line 342: confirm_outfile(save_file) checks that the output can be
\* written; it writes nothing.
ConfirmOutfile ==
    /\ pc = "main"
    /\ pc' = "enter"
    /\ UNCHANGED <<args, env, dirs, todo, ims_by_label, seen_names, labelsTodo, sampled,
                   pool, imread_mode, probed, tasks, results, arrivals, features, err, file, saveIdx, readRes>>

\* extract_features, lines 134-139
EnterExtract ==
    /\ pc = "enter"
    /\ dirs' = NormalizeDirs(args.dirs)
    /\ todo' = DOMAIN NormalizeDirs(args.dirs)
    /\ ims_by_label' = EmptyDict
    /\ seen_names' = EmptyDict
    /\ pc' = "resolve"
    /\ UNCHANGED <<args, env, labelsTodo, sampled, pool, imread_mode, probed, tasks, results, arrivals,
                   features, err, file, saveIdx, readRes>>

\* Lines 140-147 for one directory: a dict hands its items out in any order, and
\* os.listdir its entries in the order the world has them.
ResolveDir ==
    /\ pc = "resolve"
    /\ \E dirname \in todo :
        LET st == ResolveEntries(env.listing[dirname], 1, dirname, dirs[dirname],
                                 args.extensions,
                                 [ims |-> ims_by_label, seen |-> seen_names, err |-> NoError])
        IN /\ ims_by_label' = st.ims
           /\ seen_names' = st.seen
           /\ err' = st.err
           /\ todo' = todo \ {dirname}
           /\ pc' = IF st.err.kind # "none" THEN "failed"
                    ELSE IF todo = {dirname} THEN "sample" ELSE "resolve"
           /\ labelsTodo' = IF st.err.kind = "none" /\ todo = {dirname}
                            THEN DOMAIN st.ims ELSE labelsTodo
    /\ UNCHANGED <<args, env, dirs, sampled, pool, imread_mode, probed, tasks, results, arrivals,
                   features, file, saveIdx, readRes>>

\* Lines 153-154 for one label of ims_by_label (again in any order)
SampleLabel ==
    /\ pc = "sample"
    /\ \E label \in labelsTodo :
       \E out \in SampleOutcomes(args.sampler, args.img_per_cla, Sorted(ims_by_label[label])) :
          IF out.kind = "ok"
          THEN /\ sampled' = sampled \o Triples(label, out.items)
               /\ labelsTodo' = labelsTodo \ {label}
               /\ UNCHANGED <<pc, err>>
          ELSE /\ pc' = "failed"
               /\ err' = Raise(out.kind, "sample", <<label>>, <<>>)
               /\ UNCHANGED <<sampled, labelsTodo>>
    /\ UNCHANGED <<args, env, dirs, todo, ims_by_label, seen_names, pool, imread_mode, probed,
                   tasks, results, arrivals, features, file, saveIdx, readRes>>

\* Line 151: labels, image_names, paths = zip(*[...]) needs three tuples, and an
\* empty list unpacks to none.
SampleZip ==
    /\ pc = "sample"
    /\ labelsTodo = {}
    /\ IF sampled = <<>>
       THEN pc' = "failed" /\ err' = Raise("ValueError", "sample", <<>>, <<>>)
       ELSE pc' = "pool" /\ UNCHANGED err
    /\ UNCHANGED <<args, env, dirs, todo, ims_by_label, seen_names, labelsTodo, sampled,
                   pool, imread_mode, probed, tasks, results, arrivals, features, file, saveIdx, readRes>>

\* Lines 158-166
PoolSetup ==
    /\ pc = "pool"
    /\ pool' = MakePool(args.parallel)
    /\ pc' = "imread"
    /\ UNCHANGED <<args, env, dirs, todo, ims_by_label, seen_names, labelsTodo, sampled,
                   imread_mode, probed, tasks, results, arrivals, features, err, file, saveIdx, readRes>>

\* Lines 169-173 up to the call of do_map
FindImread ==
    /\ pc = "imread"
    /\ LET found == FindWorkingImread(args.imread_mode, env.libs) IN
       IF found.kind = "ok"
       THEN /\ imread_mode' = found.mode
            /\ probed' = found.tried
            /\ tasks' = [i \in DOMAIN sampled |-> "pending"]
            /\ results' = [i \in DOMAIN sampled |-> Pending]
            /\ arrivals' = <<>>
            /\ pc' = "map"
            /\ UNCHANGED <<err, pool>>
       ELSE /\ err' = Raise(found.kind, "imread", <<>>, found.listed)
            /\ probed' = found.tried
            /\ pc' = "failed"
            /\ \E collected \in BOOLEAN : pool' = LeavePool(pool, collected)
            /\ UNCHANGED <<imread_mode, tasks, results, arrivals>>
    /\ UNCHANGED <<args, env, dirs, todo, ims_by_label, seen_names, labelsTodo, sampled,
                   features, file, saveIdx, readRes>>

Finished(i) == tasks[i] \in {"done", "failed"}

\* Line 173, parallel=False: strict_map runs load_features on the paths in order,
\* in this process, and the first exception leaves extract_features at once.
StrictMapStep ==
    /\ pc = "map"
    /\ pool.owner = "none"
    /\ \E i \in DOMAIN tasks :
        /\ tasks[i] = "pending"
        /\ \A j \in 1..(i - 1) : tasks[j] = "done"
        /\ LET r == LoadFeatures(sampled[i][3], imread_mode, env) IN
           IF r.kind = "ok"
           THEN /\ tasks' = [tasks EXCEPT ![i] = "done"]
                /\ results' = Collect(results, i, r)
                /\ UNCHANGED <<pc, err>>
           ELSE /\ tasks' = [tasks EXCEPT ![i] = "failed"]
                /\ pc' = "failed"
                /\ err' = Raise(r.kind, "map", <<sampled[i][3]>>, <<>>)
                /\ UNCHANGED results
    /\ UNCHANGED arrivals
    /\ UNCHANGED <<args, env, dirs, todo, ims_by_label, seen_names, labelsTodo, sampled,
                   pool, imread_mode, probed, features, file, saveIdx, readRes>>

\* Line 173, a pool's map: a free worker takes any task not yet taken.
WorkerTake ==
    /\ pc = "map"
    /\ pool.owner # "none"
    /\ Cardinality({j \in DOMAIN tasks : tasks[j] = "running"}) < pool.workers
    /\ \E i \in DOMAIN tasks :
        /\ tasks[i] = "pending"
        /\ tasks' = [tasks EXCEPT ![i] = "running"]
    /\ UNCHANGED <<args, env, pc, dirs, todo, ims_by_label, seen_names, labelsTodo, sampled,
                   pool, imread_mode, probed, results, arrivals, features, err, file, saveIdx, readRes>>

\* A worker finishes its task, in any order among the running ones; the result
\* (or the exception) goes back to the pool's result list.
WorkerFinish ==
    /\ pc = "map"
    /\ pool.owner # "none"
    /\ \E i \in DOMAIN tasks :
        /\ tasks[i] = "running"
        /\ LET r == LoadFeatures(sampled[i][3], imread_mode, env) IN
           /\ tasks' = [tasks EXCEPT ![i] = IF r.kind = "ok" THEN "done" ELSE "failed"]
           /\ results' = Collect(results, i, r)
           /\ arrivals' = Append(arrivals, i)
    /\ UNCHANGED <<args, env, pc, dirs, todo, ims_by_label, seen_names, labelsTodo, sampled,
                   pool, imread_mode, probed, features, err, file, saveIdx, readRes>>

\* Lines 173-174: do_map returns once every task has finished, or raises what a
\* task raised; then extract_features returns the Features, or the exception
\* leaves it. Nothing here shuts the pool down.
Join ==
    /\ pc = "map"
    /\ \A i \in DOMAIN tasks : Finished(i)
    /\ IF \E i \in DOMAIN tasks : tasks[i] = "failed"
       THEN /\ pc' = "failed"
            /\ err' = Raise("IOError", "map", <<>>, <<>>)
            /\ UNCHANGED features
       ELSE /\ pc' = "save"
            /\ features' = MakeFeatures(sampled, results)
            /\ UNCHANGED err
    /\ \E collected \in BOOLEAN : pool' = LeavePool(pool, collected)
    /\ UNCHANGED <<args, env, dirs, todo, ims_by_label, seen_names, labelsTodo, sampled,
                   imread_mode, probed, tasks, results, arrivals, file, saveIdx, readRes>>

\* save_features, line 307: h5py.File(filename) opens the file, making it when
\* it does not exist.
SaveOpen ==
    /\ pc = "save"
    /\ file' = IF <<>> \in DOMAIN file THEN file ELSE [q \in {<<>>} |-> Group]
    /\ saveIdx' = 0
    /\ pc' = "saving"
    /\ UNCHANGED <<args, env, dirs, todo, ims_by_label, seen_names, labelsTodo, sampled,
                   pool, imread_mode, probed, tasks, results, arrivals, features, err, readRes>>

\* Lines 308-311, one record; an exception leaves the with block, which closes
\* the file with what was written so far.
SaveRecord ==
    /\ pc = "saving"
    /\ saveIdx < Len(features.labels)
    /\ LET i == saveIdx + 1
           r == SaveOne(file, features.labels[i], features.names[i],
                        features.frames[i], features.features[i])
       IN /\ file' = r.file
          /\ IF r.kind = "ok"
             THEN saveIdx' = i /\ UNCHANGED <<pc, err>>
             ELSE /\ pc' = "failed"
                  /\ err' = Raise(r.kind, "save", <<features.names[i], features.labels[i]>>, <<>>)
                  /\ UNCHANGED saveIdx
    /\ UNCHANGED <<args, env, dirs, todo, ims_by_label, seen_names, labelsTodo, sampled,
                   pool, imread_mode, probed, tasks, results, arrivals, features, readRes>>

\* Lines 313-314 with main's attrs (args=repr(vars(args))), then the file is closed.
SaveAttrs ==
    /\ pc = "saving"
    /\ saveIdx = Len(features.labels)
    /\ file' = [file EXCEPT ![<<>>].attrs = Put(file[<<>>].attrs, "args", <<"repr", args>>)]
    /\ pc' = "done"
    /\ UNCHANGED <<args, env, dirs, todo, ims_by_label, seen_names, labelsTodo, sampled,
                   pool, imread_mode, probed, tasks, results, arrivals, features, err, saveIdx, readRes>>

\* A later read_features(save_file)
Read ==
    /\ pc = "done"
    /\ readRes' = ReadFeatures(file)
    /\ pc' = "read"
    /\ UNCHANGED <<args, env, dirs, todo, ims_by_label, seen_names, labelsTodo, sampled,
                   pool, imread_mode, probed, tasks, results, arrivals, features, err, file, saveIdx>>

Next ==
    \/ ConfirmOutfile
    \/ EnterExtract
    \/ ResolveDir
    \/ SampleLabel
    \/ SampleZip
    \/ PoolSetup
    \/ FindImread
    \/ StrictMapStep
    \/ WorkerTake
    \/ WorkerFinish
    \/ Join
    \/ SaveOpen
    \/ SaveRecord
    \/ SaveAttrs
    \/ Read

Spec == Init /\ [][Next]_vars

----------------------------------------------------------------------------
(* Vocabulary of the properties. *)

\* Resolution (lines 140-147) has ended, normally or with an exception.
ResolutionOver == pc \notin {"main", "enter", "resolve"}
ResolutionFailed == err.at = "resolve"

\* The text after the last '.', lower-cased, of a name that has a '.'
HasDot(fname) == \E i \in DOMAIN fname : fname[i] = "."
AfterLastDot(fname) ==
    LET k == CHOOSE i \in DOMAIN fname : fname[i] = "." /\ \A j \in (i + 1)..Len(fname) : fname[j] # "."
    IN Lower(SubSeq(fname, k + 1, Len(fname)))
IsImage(fname) == HasDot(fname) /\ AfterLastDot(fname) \in args.extensions

Entries(dirname) == Range(env.listing[dirname])
LabelOf(dirname) == NormalizeDirs(args.dirs)[dirname]
AllDirs == DOMAIN NormalizeDirs(args.dirs)
AllLabels == {LabelOf(d) : d \in AllDirs}

\* The (dirname, fname) pairs of the images of a label, over all its directories
ImagesOf(label) ==
    {p \in AllDirs \X UNION {Entries(x) : x \in AllDirs} :
        LabelOf(p[1]) = label /\ p[2] \in Entries(p[1]) /\ IsImage(p[2])}

\* The same (label, filename) pair under more than one directory of that label
DuplicatePair(label, fname) ==
    \E d1, d2 \in AllDirs :
        d1 # d2 /\ <<d1, fname>> \in ImagesOf(label) /\ <<d2, fname>> \in ImagesOf(label)

\* A label's sample has been taken (lines 153-154 have run for it), or taking it raised.
SampleTaken(label) ==
    /\ ResolutionOver /\ ~ResolutionFailed
    /\ label \in DOMAIN ims_by_label
    /\ label \notin labelsTodo
SampleRaised(label) == err.at = "sample" /\ err.names = <<label>>

\* The part of the sampled list that belongs to a label
RECURSIVE OfLabel(_, _)
OfLabel(triples, label) ==
    IF triples = <<>> THEN <<>>
    ELSE IF triples[1][1] = label THEN <<triples[1]>> \o OfLabel(Tail(triples), label)
    ELSE OfLabel(Tail(triples), label)

\* extract_features has returned its Features
Returned == pc \in {"save", "saving", "done", "read"} \/ (pc = "failed" /\ err.at = "save")
\* extract_features has been left, by return or by an exception, after line 166
LeftAfterPoolSetup == Returned \/ (pc = "failed" /\ err.at \in {"imread", "map"})

\* A backend can be used: what it imports is there.
Usable(mode) ==
    IF StartsWith(mode, SKIMAGE_)
    THEN "skimage" \in env.libs.modules
         /\ SubSeq(mode, Len(SKIMAGE_) + 1, Len(mode)) \in env.libs.plugins
    ELSE IF mode = CV2 THEN "cv2" \in env.libs.modules
    ELSE mode = MATPLOTLIB /\ "matplotlib" \in env.libs.modules

Preference == ModeList(args.imread_mode)
ImreadOver == \/ pc \in {"map", "save", "saving", "done", "read"}
              \/ (pc = "failed" /\ err.at \in {"imread", "map", "save"})

----------------------------------------------------------------------------
(* Properties. *)

\* C9: for every preference list of imread modes, _find_working_imread tries the
\* modes in list order, skips every mode that is not usable and returns the first
\* usable one; it fails if and only if no mode of the list is usable, and the
\* ImportError then lists every mode of the list.
C9_FirstUsableBackend ==
    ImreadOver =>
        IF \E i \in DOMAIN Preference : Usable(Preference[i])
        THEN LET first == CHOOSE i \in DOMAIN Preference :
                              Usable(Preference[i]) /\ \A j \in 1..(i - 1) : ~Usable(Preference[j])
             IN /\ err.at # "imread"
                /\ imread_mode = Preference[first]
                /\ probed = SubSeq(Preference, 1, first)
        ELSE /\ err.at = "imread"
             /\ err.kind = "ImportError"
             /\ err.modes = Preference
             /\ probed = Preference

\* C9's case: a list whose first mode is not usable and whose second is, after
\* the selection has run.
C9_Witness ==
    /\ ImreadOver /\ pc = "map"
    /\ Len(Preference) >= 2
    /\ ~Usable(Preference[1])
    /\ Usable(Preference[2])
    /\ imread_mode = Preference[2]

\* C2: for every sampled path list and every form of `parallel`, the Features
\* that extract_features returns is index-aligned: frames[i] and features[i] are
\* what the single-image extraction of paths[i] gives, and labels[i], names[i]
\* are the label and the file name of that image, in whatever order the workers
\* finish.
C2_IndexAligned ==
    Returned =>
        /\ Len(features.labels) = Len(sampled)
        /\ Len(features.names) = Len(sampled)
        /\ Len(features.frames) = Len(sampled)
        /\ Len(features.features) = Len(sampled)
        /\ \A i \in DOMAIN sampled :
            LET single == LoadFeatures(sampled[i][3], imread_mode, env) IN
            /\ single.kind = "ok"
            /\ features.frames[i] = single.value[1]
            /\ features.features[i] = single.value[2]
            /\ features.labels[i] = sampled[i][1]
            /\ features.names[i] = sampled[i][2]
            /\ \E d \in AllDirs :
                /\ <<d, features.names[i]>> \in ImagesOf(features.labels[i])
                /\ sampled[i][3] = PathJoin(d, features.names[i])

\* C2's case: an internal pool whose workers finished the last of three tasks
\* first, after extract_features has returned.
C2_Witness ==
    /\ pc = "save"
    /\ pool.owner = "internal"
    /\ Len(sampled) = 3
    /\ Len(arrivals) = 3
    /\ arrivals[1] = 3
    /\ features.labels[1] # features.labels[3]

\* C3: for every label's image list and every cap N with 1 <= N <= len(list), the
\* uniform sampler returns normally, with exactly N items taken at strictly
\* increasing positions of the sorted list, the first and the last position
\* among them when N >= 2.
C3_UniformSample ==
    \A label \in DOMAIN ims_by_label :
        LET lst == Triples(label, Sorted(ims_by_label[label]))
            got == OfLabel(sampled, label)
            n == args.img_per_cla.n
            pos(x) == CHOOSE i \in DOMAIN lst : lst[i] = x
        IN (/\ args.sampler = "uniform"
            /\ ~args.img_per_cla.none
            /\ 1 <= n /\ n <= Len(lst)
            /\ SampleTaken(label) \/ SampleRaised(label))
           => /\ ~SampleRaised(label)
              /\ Len(got) = n
              /\ \A k \in DOMAIN got : got[k] \in Range(lst)
              /\ \A k \in 1..(Len(got) - 1) : pos(got[k]) < pos(got[k + 1])
              /\ n >= 2 => (got[1] = lst[1] /\ got[n] = lst[Len(lst)])

C5_FullListUnchanged ==
    \A label \in DOMAIN ims_by_label :
        (/\ ~args.img_per_cla.none
         /\ args.img_per_cla.n >= Len(ims_by_label[label])
         /\ SampleTaken(label) \/ SampleRaised(label))
        => /\ ~SampleRaised(label)
           /\ OfLabel(sampled, label) = Triples(label, Sorted(ims_by_label[label]))

\* C5 amended: for every label's image list and every cap N >= len(list), each
\* of the samplers returns every image of the label exactly once; first and
\* uniform return them in the sorted order given, random in any order.
C5_FullListAnyOrder ==
    \A label \in DOMAIN ims_by_label :
        LET full == Triples(label, Sorted(ims_by_label[label]))
            got == OfLabel(sampled, label)
        IN (/\ ~args.img_per_cla.none
            /\ args.img_per_cla.n >= Len(ims_by_label[label])
            /\ SampleTaken(label) \/ SampleRaised(label))
           => /\ ~SampleRaised(label)
              /\ Len(got) = Len(full)
              /\ Range(got) = Range(full)
              /\ args.sampler \in {"first", "uniform"} => got = full

\* C5's case: the random sampler, given a cap no smaller than the list, has
\* returned all of a label's images in another order than the sorted one.
C5_Witness ==
    \E label \in DOMAIN ims_by_label :
        /\ SampleTaken(label)
        /\ args.sampler = "random"
        /\ ~args.img_per_cla.none
        /\ args.img_per_cla.n >= Len(ims_by_label[label])
        /\ Len(OfLabel(sampled, label)) = Len(ims_by_label[label])
        /\ OfLabel(sampled, label) # Triples(label, Sorted(ims_by_label[label]))

\* C1: for every mapping of directories to labels and every directory content,
\* resolution records each file with an allowed extension exactly once under its
\* label, and fails, with a ValueError naming the file name and the label, if and
\* only if one (label, file name) pair occurs under more than one directory of
\* that label; one file name under two labels is no error.
C1_ResolutionDuplicates ==
    ResolutionOver =>
        IF \E label \in AllLabels, d \in AllDirs : \E f \in Entries(d) : DuplicatePair(label, f)
        THEN /\ ResolutionFailed
             /\ err.kind = "ValueError"
             /\ Len(err.names) = 2
             /\ DuplicatePair(err.names[2], err.names[1])
        ELSE /\ ~ResolutionFailed
             /\ \A label \in AllLabels :
                 LET recorded == GetOr(ims_by_label, label, <<>>) IN
                 /\ Range(recorded) = ImagesOf(label)
                 /\ Distinct(recorded)

\* C10: for every directory listing, whatever the form of its entry names,
\* resolution keeps exactly the entries whose lower-cased extension (the text
\* after the last '.') is in the allowed set; every other entry is left out and
\* resolution goes on with the remaining entries.
C10_ExtensionFilter ==
    ResolutionOver =>
        /\ ResolutionFailed => err.kind = "ValueError"
        /\ ~ResolutionFailed =>
             \A d \in AllDirs :
                 {p[2] : p \in {q \in Range(GetOr(ims_by_label, LabelOf(d), <<>>)) : q[1] = d}}
                 = {f \in Entries(d) : IsImage(f)}

\* The records of a Features, as a set
RecordsOf(ft) ==
    {<<ft.labels[i], ft.names[i], ft.frames[i], ft.features[i]>> : i \in DOMAIN ft.labels}

\* C6: for every Features that extract_features can return (labels being any
\* label strings, directory paths used as labels among them), save_features into
\* a fresh file followed by read_features yields, both sorted by (label, name),
\* the same labels and names and equal frames and features arrays, one record per
\* image written.
C6_RoundTrip ==
    /\ err.at # "save"
    /\ pc = "read" =>
         /\ readRes.kind = "ok"
         /\ Len(readRes.ret.labels) = Len(features.labels)
         /\ RecordsOf(readRes.ret) = RecordsOf(features)

\* C7: in every run of main, nothing is written to the output file before the
\* whole Features is assembled, and after every run that ends in failure the
\* output file holds no part of the archive.
C7_NoPartialArchive ==
    /\ DOMAIN file # {} => Returned
    /\ pc = "failed" => ~\E q \in DOMAIN file : file[q].kind = "dataset"

\* C8: whenever extract_features makes its own pool (parallel is True or an
\* integer), the pool's workers are all gone by the time extract_features
\* returns, and by the time an exception (of the imread selection or of a worker)
\* leaves it.
C8_PoolTornDown ==
    (LeftAfterPoolSetup /\ pool.owner = "internal") => pool.workers = 0

====
